---- MODULE Spec2Model ----
(***************************************************************************)
(* Exact-size file converter (src/test6.py).                               *)
(*                                                                         *)
(* The size-fitting engine: image_to_image_exact, image_to_pdf_exact,      *)
(* pdf_to_pdf_exact, pdf_to_image and the normalizer                       *)
(* pad_file_to_size_safe, driven by the dispatch of the main run.          *)
(*                                                                         *)
(* Byte strings are sequences of integers in 0..255.  The image codec and  *)
(* the PDF writer are external libraries: an uploaded file comes with an   *)
(* encoder profile `enc` that fixes the size of every encode of that       *)
(* image (a step function of quality, shrinking with the resolution, with  *)
(* an optional bump that makes it non-monotonic).  The profile is an input *)
(* of the session, drawn from a bounded family.                            *)
(***************************************************************************)
EXTENDS Integers, Sequences, FiniteSets, TLC

\* ----------------------------------------------------------------- bounds
MaxBudget == 3
MaxEncSize == 3
MaxSide == 79
MaxPdfLen == 3
PdfOverhead == 1

\* -------------------------------------------------------------- constants
TARGET_MIN_QUALITY == 10
TARGET_MAX_QUALITY == 95
PDF_MIN_QUALITY == 30
PDF_MAX_QUALITY == 95
STEP1_QUALITY == 90
FALLBACK_QUALITY == 60
MIN_SIDE == 50

None == "None"
SPACE == 32

Max(a, b) == IF a >= b THEN a ELSE b

\* b" " * n
Spaces(n) == [i \in 1..n |-> SPACE]

\* ------------------------------------------------- pad_file_to_size_safe
\* the normalizer without the raster truncation
pad_never_truncates(data, target_bytes, is_pdf) ==
    IF Len(data) >= target_bytes
    THEN data
    ELSE data \o Spaces(target_bytes - Len(data))

\* the normalizer truncating whatever the kind
pad_always_truncates(data, target_bytes, is_pdf) ==
    IF Len(data) >= target_bytes
    THEN SubSeq(data, 1, target_bytes)
    ELSE data \o Spaces(target_bytes - Len(data))

pad_file_to_size_safe(data, target_bytes, is_pdf) ==
    IF Len(data) >= target_bytes
    THEN IF is_pdf THEN data ELSE SubSeq(data, 1, target_bytes)
    ELSE data \o Spaces(target_bytes - Len(data))

\* ------------------------------------------------------------- fmt_map
FmtKeys == {"jpg", "jpeg", "png", "webp", "bmp", "tiff"}

\* str.lower() on the output kinds the model feeds in
Lower(s) ==
    CASE s = "JPG" -> "jpg"
      [] s = "PNG" -> "png"
      [] OTHER -> s

fmt_map(k) ==
    CASE k = "jpg" -> "JPEG"
      [] k = "jpeg" -> "JPEG"
      [] k = "png" -> "PNG"
      [] k = "webp" -> "WEBP"
      [] k = "bmp" -> "BMP"
      [] k = "tiff" -> "TIFF"

QualityFormats == {"JPEG", "WEBP"}

\* ------------------------------------------------------ the codec (input)
\* (t1, t2): the qualities at which the size steps; they put the highest
\* fitting quality at either end of a search range, at 90, or 7 probes deep
ThresholdPairs == { <<11, 62>>, <<31, 91>>, <<62, 91>> }

Encoders ==
    { e \in [t1 : {11, 31, 62}, t2 : {62, 91},
             s0 : 1..MaxEncSize, s1 : 1..MaxEncSize, s2 : 1..MaxEncSize,
             k : 0..1, bump : BOOLEAN] :
        /\ <<e.t1, e.t2>> \in ThresholdPairs
        /\ ~(e.k = 1 /\ e.bump) }

\* size of the encode at full resolution, as a function of quality
BaseSize(e, q) ==
    IF q < e.t1 THEN e.s0 ELSE IF q < e.t2 THEN e.s1 ELSE e.s2

\* length of save_with_format(img, pil_format, quality) for the image img
\* (a resize of the decoded image of width ow); PNG/BMP/TIFF ignore quality
EncSize(e, ow, img, pil_format, quality) ==
    LET base == IF pil_format \in QualityFormats
                THEN BaseSize(e, quality) ELSE e.s2
        drop == (e.k * (ow - img.w) * 10) \div ow
        bump == IF e.bump /\ img.w % 2 = 1 THEN 2 ELSE 0
    IN  Max(1, base - drop) + bump

\* the bytes of an encode: content depends on the image and the quality
save_with_format(e, ow, img, pil_format, quality) ==
    LET n == EncSize(e, ow, img, pil_format, quality)
        tag == IF pil_format \in QualityFormats THEN quality ELSE 0
    IN  [i \in 1..n |-> 100 + ((tag + img.w + img.h + i) % 100)]

\* --------------------------------------------------------------- inputs
Budgets == 1..MaxBudget

\* decoded sizes (w, h) of the uploaded image or of the rendered PDF page
Dims == { [w |-> 1, h |-> 2], [w |-> 50, h |-> 64],
          [w |-> 51, h |-> 51], [w |-> MaxSide, h |-> 57] }

\* sizes of the rendered first page of an uploaded PDF
PageDims == { [w |-> 51, h |-> 51] }

OutTypes == {"jpg", "webp", "PNG", "bmp", "tiff", "pdf", "gif"}

PdfBytes == {SPACE, 37}
PdfDatas == UNION { [1..n -> PdfBytes] : n \in 0..MaxPdfLen }

NoImage == [w |-> 0, h |-> 0]
NoChoice == [stage |-> None, q |-> 0, w |-> 0, h |-> 0, scale |-> 0]
\* best = NoBest
NoBest == [set |-> FALSE, q |-> 0, bytes |-> <<>>]
\* no out_data
NoResult == <<>>
NoPrev == [b |-> 0, q |-> 0, stage |-> None]

VARIABLES
    uploaded,       \* [kind, data, decodable, size, pages]: the uploaded file
    enc,            \* encoder profile of the uploaded image / rendered page
    out_type,       \* selected output type
    PDF2IMAGE_OK,   \* whether pdf2image was importable
    pc,             \* position of the run
    target_bytes,   \* int(target_kb) * KB of the current run
    pil_format,     \* fmt_map[out_fmt.lower()]
    img,            \* current (resized) image: [w, h]
    out_bytes,      \* step-1 encode of image_to_image_exact
    low, high,      \* quality binary search window
    best,           \* best / best_pdf: best fitting candidate of the search
    scale_i,        \* index of the scale of image_to_pdf_exact's outer loop
    result,         \* out_data, the bytes handed to the download button
    chosen,         \* which encode the result was built from
    cands,          \* every encode made by the run, in order
    prev            \* budget and quality of the previous image->image run

vars == <<uploaded, enc, out_type, PDF2IMAGE_OK, pc, target_bytes, pil_format,
          img, out_bytes, low, high, best, scale_i, result, chosen, cands, prev>>

session == <<uploaded, enc, out_type, PDF2IMAGE_OK>>

DefaultEnc == [t1 |-> 11, t2 |-> 31, s0 |-> 1, s1 |-> 1, s2 |-> 1,
               k |-> 0, bump |-> FALSE]

ImageUpload(d) == [kind |-> "image", data |-> <<>>, decodable |-> TRUE,
                   size |-> d, pages |-> 1]
BadImageUpload == [kind |-> "image", data |-> <<>>, decodable |-> FALSE,
                   size |-> NoImage, pages |-> 0]
PdfUpload(data, d, n) == [kind |-> "pdf", data |-> data, decodable |-> TRUE,
                          size |-> d, pages |-> n]

Idle ==
    /\ pc = "idle"
    /\ target_bytes = 0
    /\ pil_format = None
    /\ img = NoImage
    /\ out_bytes = <<>>
    /\ low = 0 /\ high = 0
    /\ best = NoBest
    /\ scale_i = 0
    /\ result = NoResult
    /\ chosen = NoChoice
    /\ cands = <<>>

Init ==
    /\ Idle
    /\ prev = NoPrev
    /\ \/ \* a decodable image, any output type
          /\ \E d \in Dims : uploaded = ImageUpload(d)
          /\ enc \in Encoders
          /\ out_type \in OutTypes
          /\ PDF2IMAGE_OK = TRUE
       \/ \* bytes that do not decode as an image
          /\ uploaded = BadImageUpload
          /\ enc = DefaultEnc
          /\ out_type \in {"jpg", "pdf"}
          /\ PDF2IMAGE_OK = TRUE
       \/ \* a PDF, padded
          /\ \E data \in PdfDatas : uploaded = PdfUpload(data, NoImage, 1)
          /\ enc = DefaultEnc
          /\ out_type = "pdf"
          /\ PDF2IMAGE_OK \in BOOLEAN
       \/ \* a PDF, first page rendered to an image
          /\ \E d \in PageDims, n \in 0..1 : uploaded = PdfUpload(<<37>>, d, n)
          /\ enc \in Encoders
          /\ out_type \in OutTypes \ {"pdf"}
          /\ PDF2IMAGE_OK \in BOOLEAN

\* ------------------------------------------------------------- main run
\* lines 197-219: dispatch on the input kind and the output type
Convert(b) ==
    /\ pc = "idle"
    /\ target_bytes' = b
    /\ pc' = IF uploaded.kind = "image"
             THEN IF out_type = "pdf" THEN "image_to_pdf_exact"
                                      ELSE "image_to_image_exact"
             ELSE IF out_type = "pdf" THEN "pdf_to_pdf_exact"
                                      ELSE "pdf_to_image"
    /\ UNCHANGED <<session, pil_format, img, out_bytes, low, high, best,
                   scale_i, result, chosen, cands, prev>>

Return(data, choice) ==
    /\ result' = data
    /\ chosen' = choice
    /\ pc' = "done"

Raise ==
    /\ result' = NoResult
    /\ chosen' = NoChoice
    /\ pc' = "error"

\* ----------------------------------------------------- pdf_to_pdf_exact
\* pdf->pdf calling the normalizer without is_pdf=True
pdf_to_pdf_exact_AsRaster ==
    /\ pc = "pdf_to_pdf_exact"
    /\ Return(pad_file_to_size_safe(uploaded.data, target_bytes, FALSE),
              [NoChoice EXCEPT !.stage = "pad"])
    /\ UNCHANGED <<session, target_bytes, pil_format, img, out_bytes, low,
                   high, best, scale_i, cands, prev>>

pdf_to_pdf_exact ==
    /\ pc = "pdf_to_pdf_exact"
    /\ Return(pad_file_to_size_safe(uploaded.data, target_bytes, TRUE),
              [NoChoice EXCEPT !.stage = "pad"])
    /\ UNCHANGED <<session, target_bytes, pil_format, img, out_bytes, low,
                   high, best, scale_i, cands, prev>>

\* --------------------------------------------------------- pdf_to_image
pdf_to_image ==
    /\ pc = "pdf_to_image"
    /\ IF ~PDF2IMAGE_OK \/ uploaded.pages = 0
       THEN Raise
       ELSE /\ pc' = "image_to_image_exact"
            /\ UNCHANGED <<result, chosen>>
    /\ UNCHANGED <<session, target_bytes, pil_format, img, out_bytes, low,
                   high, best, scale_i, cands, prev>>

\* ------------------------------------------------- image_to_image_exact
Cand(stage, q, im, sc, bytes) ==
    [stage |-> stage, q |-> q, w |-> im.w, h |-> im.h, scale |-> sc,
     size |-> Len(bytes)]

Choice(stage, q, im, sc) ==
    [stage |-> stage, q |-> q, w |-> im.w, h |-> im.h, scale |-> sc]

Encode(im, fmt, q) == save_with_format(enc, uploaded.size.w, im, fmt, q)

\* line 74
Step1Fits(size, target) == size <= target

\* lines 64-75: format lookup, decode, step-1 encode
I2I_Step1 ==
    /\ pc = "image_to_image_exact"
    /\ IF Lower(out_type) \notin FmtKeys \/ ~uploaded.decodable
       THEN /\ Raise
            /\ UNCHANGED <<pil_format, img, out_bytes, low, high, best, cands>>
       ELSE LET fmt == fmt_map(Lower(out_type))
                im == uploaded.size
                ob == save_with_format(enc, im.w, im, fmt, STEP1_QUALITY)
            IN  /\ pil_format' = fmt
                /\ img' = im
                /\ out_bytes' = ob
                /\ cands' = Append(cands, Cand("step1", STEP1_QUALITY, im, 0, ob))
                /\ IF Step1Fits(Len(ob), target_bytes)
                   THEN /\ Return(pad_file_to_size_safe(ob, target_bytes, FALSE),
                                  Choice("step1", STEP1_QUALITY, im, 0))
                        /\ UNCHANGED <<low, high, best>>
                   ELSE /\ UNCHANGED <<result, chosen>>
                        /\ IF fmt \in QualityFormats
                           THEN /\ pc' = "search"
                                /\ low' = TARGET_MIN_QUALITY
                                /\ high' = TARGET_MAX_QUALITY
                                /\ best' = NoBest
                           ELSE /\ pc' = "resize"
                                /\ UNCHANGED <<low, high, best>>
    /\ UNCHANGED <<session, target_bytes, scale_i, prev>>

\* lines 81-89: one probe of the quality binary search
\* a search that probes the top of the window first
SearchMid_FromTop(lo, hi) == hi

SearchMid(lo, hi) == (lo + hi) \div 2

\* `size < target_bytes` in place of `size <= target_bytes`
SearchFits_Strict(size, target) == size < target

\* line 85
SearchFits(size, target) == size <= target
SearchLowAfterFit(mid) == mid + 1
SearchHighAfterMiss(mid) == mid - 1

I2I_Probe ==
    /\ pc = "search"
    /\ low <= high
    /\ LET mid == SearchMid(low, high)
           candidate == Encode(img, pil_format, mid)
       IN  /\ cands' = Append(cands, Cand("search", mid, img, 0, candidate))
           /\ IF SearchFits(Len(candidate), target_bytes)
              THEN /\ best' = [set |-> TRUE, q |-> mid, bytes |-> candidate]
                   /\ low' = SearchLowAfterFit(mid)
                   /\ UNCHANGED high
              ELSE /\ high' = SearchHighAfterMiss(mid)
                   /\ UNCHANGED <<low, best>>
    /\ UNCHANGED <<session, pc, target_bytes, pil_format, img, out_bytes,
                   scale_i, result, chosen, prev>>

\* truth value of `if best:` -- None and b"" are both false
Truthy(b) == b.set /\ Len(b.bytes) > 0

\* lines 81, 90-91: the search window is empty
I2I_SearchEnd ==
    /\ pc = "search"
    /\ ~(low <= high)
    /\ IF Truthy(best)
       THEN Return(pad_file_to_size_safe(best.bytes, target_bytes, FALSE),
                   Choice("search", best.q, img, 0))
       ELSE /\ pc' = "resize"
            /\ UNCHANGED <<result, chosen>>
    /\ UNCHANGED <<session, target_bytes, pil_format, img, out_bytes, low,
                   high, best, scale_i, cands, prev>>

\* the shrink without the clamp
Shrink_NoClamp(side) == (side * 9) \div 10

\* int(side * 0.9) clamped to 50
Shrink(side) == Max((side * 9) \div 10, MIN_SIDE)

ResizeGuard(im) == im.w > MIN_SIDE /\ im.h > MIN_SIDE

\* line 100
ResizeFits(size, target) == size <= target

\* lines 95-101: one step of the progressive resize
I2I_Resize ==
    /\ pc = "resize"
    /\ ResizeGuard(img)
    /\ LET im == [w |-> Shrink(img.w), h |-> Shrink(img.h)]
           candidate == Encode(im, pil_format, STEP1_QUALITY)
       IN  /\ img' = im
           /\ cands' = Append(cands, Cand("resize", STEP1_QUALITY, im, 0, candidate))
           /\ IF ResizeFits(Len(candidate), target_bytes)
              THEN Return(pad_file_to_size_safe(candidate, target_bytes, FALSE),
                          Choice("resize", STEP1_QUALITY, im, 0))
              ELSE UNCHANGED <<pc, result, chosen>>
    /\ UNCHANGED <<session, target_bytes, pil_format, out_bytes, low, high,
                   best, scale_i, prev>>

\* the best effort taken from the last (smallest) image instead of the
\* step-1 encode
I2I_BestEffort_LastCandidate ==
    /\ pc = "resize"
    /\ ~ResizeGuard(img)
    /\ Return(pad_file_to_size_safe(Encode(img, pil_format, STEP1_QUALITY),
                                    target_bytes, FALSE),
              Choice("best_effort", STEP1_QUALITY, img, 0))
    /\ UNCHANGED <<session, target_bytes, pil_format, img, out_bytes, low,
                   high, best, scale_i, cands, prev>>

\* lines 95, 103-104: the resize loop is exhausted
I2I_BestEffort ==
    /\ pc = "resize"
    /\ ~ResizeGuard(img)
    /\ Return(pad_file_to_size_safe(out_bytes, target_bytes, FALSE),
              Choice("best_effort", STEP1_QUALITY, uploaded.size, 0))
    /\ UNCHANGED <<session, target_bytes, pil_format, img, out_bytes, low,
                   high, best, scale_i, cands, prev>>

\* --------------------------------------------------- image_to_pdf_exact
\* the scale list walked from the smallest scale up
Scales_Ascending == <<30, 35, 40, 45, 50, 60, 70, 80, 90, 100>>

\* the scale list of line 138, in hundredths
Scales == <<100, 90, 80, 70, 60, 50, 45, 40, 35, 30>>

\* int(side * scale) in double arithmetic: the floor of the exact product,
\* except where the rounded product falls just below an integer
\* (0.7 and 0.35 are stored below their decimal value); sides up to 200
FloatShort(side, pct) ==
    \/ pct = 70 /\ side \in {90, 170, 180}
    \/ pct = 35 /\ side = 180

ScaledSide(side, pct) ==
    Max(((side * pct) \div 100) - (IF FloatShort(side, pct) THEN 1 ELSE 0), 1)

\* the PDF writer: a wrapper of fixed overhead around the embedded JPEG
_build_pdf_from_image_bytes(img_bytes, iw, ih) ==
    [i \in 1..PdfOverhead |-> 37] \o img_bytes

PdfAt(im, q) ==
    _build_pdf_from_image_bytes(Encode(im, "JPEG", q), im.w, im.h)

\* lines 133-134: decode the image
I2P_Open ==
    /\ pc = "image_to_pdf_exact"
    /\ IF ~uploaded.decodable
       THEN /\ Raise
            /\ UNCHANGED scale_i
       ELSE /\ pc' = "scale"
            /\ scale_i' = 1
            /\ UNCHANGED <<result, chosen>>
    /\ UNCHANGED <<session, target_bytes, pil_format, img, out_bytes, low,
                   high, best, cands, prev>>

\* lines 138-146: next scale of the outer loop
I2P_Scale ==
    /\ pc = "scale"
    /\ scale_i <= Len(Scales)
    /\ img' = [w |-> ScaledSide(uploaded.size.w, Scales[scale_i]),
               h |-> ScaledSide(uploaded.size.h, Scales[scale_i])]
    /\ low' = PDF_MIN_QUALITY
    /\ high' = PDF_MAX_QUALITY
    /\ best' = NoBest
    /\ pc' = "pdfsearch"
    /\ UNCHANGED <<session, target_bytes, pil_format, out_bytes, scale_i,
                   result, chosen, cands, prev>>

\* a linear scan from the bottom of the window
PdfMid_Linear(lo, hi) == lo

PdfMid(lo, hi) == (lo + hi) \div 2
\* line 155
GridFits(size, target) == size <= target
PdfLowAfterFit(mid) == mid + 1
PdfHighAfterMiss(mid) == mid - 1

\* lines 148-159: one probe of the quality search at the current scale
I2P_Probe ==
    /\ pc = "pdfsearch"
    /\ low <= high
    /\ LET mid == PdfMid(low, high)
           pdf_bytes == PdfAt(img, mid)
       IN  /\ cands' = Append(cands, Cand("grid", mid, img, scale_i, pdf_bytes))
           /\ IF GridFits(Len(pdf_bytes), target_bytes)
              THEN /\ best' = [set |-> TRUE, q |-> mid, bytes |-> pdf_bytes]
                   /\ low' = PdfLowAfterFit(mid)
                   /\ UNCHANGED high
              ELSE /\ high' = PdfHighAfterMiss(mid)
                   /\ UNCHANGED <<low, best>>
    /\ UNCHANGED <<session, pc, target_bytes, pil_format, img, out_bytes,
                   scale_i, result, chosen, prev>>

\* lines 148, 161-163: the search at this scale is over
I2P_ScaleEnd ==
    /\ pc = "pdfsearch"
    /\ ~(low <= high)
    /\ IF Truthy(best)
       THEN /\ Return(pad_file_to_size_safe(best.bytes, target_bytes, TRUE),
                      Choice("grid", best.q, img, scale_i))
            /\ UNCHANGED scale_i
       ELSE /\ pc' = "scale"
            /\ scale_i' = scale_i + 1
            /\ UNCHANGED <<result, chosen>>
    /\ UNCHANGED <<session, target_bytes, pil_format, img, out_bytes, low,
                   high, best, cands, prev>>

ThirdSide(side) == Max(side \div 3, 1)

\* the fallback sent through the truncating normalizer
FallbackReturn_Truncating(pdf_bytes, target) ==
    pad_file_to_size_safe(pdf_bytes, target, FALSE)

\* lines 171-173
FallbackReturn(pdf_bytes, target) ==
    IF Len(pdf_bytes) < target
    THEN pad_file_to_size_safe(pdf_bytes, target, TRUE)
    ELSE pdf_bytes

\* lines 165-173: no scale fitted
I2P_Fallback ==
    /\ pc = "scale"
    /\ ~(scale_i <= Len(Scales))
    /\ LET fallback == [w |-> ThirdSide(uploaded.size.w),
                        h |-> ThirdSide(uploaded.size.h)]
           pdf_bytes == PdfAt(fallback, FALLBACK_QUALITY)
       IN  /\ img' = fallback
           /\ cands' = Append(cands, Cand("fallback", FALLBACK_QUALITY,
                                          fallback, 0, pdf_bytes))
           /\ Return(FallbackReturn(pdf_bytes, target_bytes),
                     Choice("fallback", FALLBACK_QUALITY, fallback, 0))
    /\ UNCHANGED <<session, target_bytes, pil_format, out_bytes, low, high,
                   best, scale_i, prev>>

\* ----------------------------------------------------- end of the run
RasterStages == {"step1", "search", "resize", "best_effort"}

\* lines 225-229: the result (or the error) is shown; the next run starts
\* from scratch.  prev keeps the outcome of an image->image run.
Finish ==
    /\ pc \in {"done", "error"}
    /\ prev' = IF pc = "done" /\ chosen.stage \in RasterStages
               THEN [b |-> target_bytes, q |-> chosen.q, stage |-> chosen.stage]
               ELSE NoPrev
    /\ pc' = "idle"
    /\ target_bytes' = 0
    /\ pil_format' = None
    /\ img' = NoImage
    /\ out_bytes' = <<>>
    /\ low' = 0 /\ high' = 0
    /\ best' = NoBest
    /\ scale_i' = 0
    /\ result' = NoResult
    /\ chosen' = NoChoice
    /\ cands' = <<>>
    /\ UNCHANGED session

Next ==
    \/ \E b \in Budgets : Convert(b)
    \/ pdf_to_pdf_exact
    \/ pdf_to_image
    \/ I2I_Step1
    \/ I2I_Probe
    \/ I2I_SearchEnd
    \/ I2I_Resize
    \/ I2I_BestEffort
    \/ I2P_Open
    \/ I2P_Scale
    \/ I2P_Probe
    \/ I2P_ScaleEnd
    \/ I2P_Fallback
    \/ Finish

Spec == Init /\ [][Next]_vars

\* ====================================================================
\* Properties
\* ====================================================================
Orig == uploaded.size
RasterDone == pc = "done" /\ chosen.stage \in RasterStages
GridDone == pc = "done" /\ chosen.stage = "grid"
FallbackDone == pc = "done" /\ chosen.stage = "fallback"
PadDone == pc = "done" /\ chosen.stage = "pad"

CandIdx == 1..Len(cands)
StageCands(st) == { i \in CandIdx : cands[i].stage = st }
AnyCandFits == \E i \in CandIdx : cands[i].size <= target_bytes

RasterQualities == TARGET_MIN_QUALITY..TARGET_MAX_QUALITY
PdfQualities == PDF_MIN_QUALITY..PDF_MAX_QUALITY

\* size of the full-resolution encode at quality q, in the run's format
FullSize(q) == EncSize(enc, Orig.w, Orig, pil_format, q)
MonotonicEncoder ==
    \A q \in RasterQualities \ {TARGET_MAX_QUALITY} : FullSize(q) <= FullSize(q + 1)
FittingQualities == { q \in RasterQualities : FullSize(q) <= target_bytes }
MaxOf(S) == CHOOSE x \in S : \A y \in S : y <= x
MinOf(S) == CHOOSE x \in S : \A y \in S : x <= y

\* ---------------------------------------------------------------- C1
\* C1: every finished raster conversion (image->image, or pdf->image
\* re-entering it) returns exactly target_bytes bytes, whichever stage
\* produced the encode.
C1_RasterExactLength ==
    RasterDone => Len(result) = target_bytes

\* a rendered PDF page whose every encode is too big: the step-1 encode
\* is cut down to the budget
C1_Witness ==
    /\ RasterDone
    /\ uploaded.kind = "pdf"
    /\ chosen.stage = "best_effort"
    /\ Len(out_bytes) > target_bytes
    /\ Len(result) = target_bytes

\* ---------------------------------------------------------------- C2
\* C2 as stated: every PDF output and every normalizer call has length
\* target_bytes, the image->pdf fallback being the only exception.
C2_OnlyFallbackDiffers ==
    pc = "done" => (Len(result) = target_bytes \/ chosen.stage = "fallback")

\* C2 amended: the output has length target_bytes except in two cases,
\* the image->pdf fallback whose PDF is not shorter than the budget, and
\* pdf->pdf with an input longer than the budget; in both the PDF is
\* returned unchanged, longer than (or as long as) the budget.
C2_ExactExceptPdfOversize ==
    /\ RasterDone => Len(result) = target_bytes
    /\ GridDone => Len(result) = target_bytes
    /\ PadDone =>
          IF Len(uploaded.data) > target_bytes
          THEN result = uploaded.data
          ELSE Len(result) = target_bytes
    /\ FallbackDone =>
          IF cands[Len(cands)].size >= target_bytes
          THEN Len(result) = cands[Len(cands)].size
          ELSE Len(result) = target_bytes

C2_Witness ==
    /\ PadDone
    /\ Len(uploaded.data) > target_bytes
    /\ Len(result) > target_bytes

\* ---------------------------------------------------------------- C3
\* C3: pdf->pdf returns the input followed by max(0, b - len(input))
\* spaces: never re-encoded, never truncated.
C3_PdfToPdfPadsOnly ==
    PadDone =>
        /\ Len(result) = Max(Len(uploaded.data), target_bytes)
        /\ \A i \in 1..Len(result) :
              result[i] = IF i <= Len(uploaded.data)
                          THEN uploaded.data[i] ELSE SPACE

C3_Witness ==
    /\ PadDone
    /\ Len(uploaded.data) > 0
    /\ Len(uploaded.data) < target_bytes
    /\ Len(result) = target_bytes

\* ---------------------------------------------------------------- C4
\* C4: for JPEG/WEBP and an encoder whose size is non-decreasing in
\* quality: if size(90) <= budget the result is the quality-90 encode;
\* otherwise, if some quality in [10,95] fits, the result is the encode
\* at the highest fitting quality.
C4_SearchFindsMaxQuality ==
    (RasterDone /\ pil_format \in QualityFormats /\ MonotonicEncoder) =>
        IF FullSize(STEP1_QUALITY) <= target_bytes
        THEN /\ chosen.stage = "step1"
             /\ chosen.q = STEP1_QUALITY
             /\ result = Encode(Orig, pil_format, STEP1_QUALITY)
                           \o Spaces(target_bytes - FullSize(STEP1_QUALITY))
        ELSE FittingQualities # {} =>
             LET qmax == MaxOf(FittingQualities)
             IN  /\ chosen.stage = "search"
                 /\ chosen.q = qmax
                 /\ result = Encode(Orig, pil_format, qmax)
                               \o Spaces(target_bytes - FullSize(qmax))

C4_Witness ==
    /\ RasterDone
    /\ pil_format \in QualityFormats
    /\ MonotonicEncoder
    /\ chosen.stage = "search"
    /\ chosen.q = 61
    /\ FullSize(62) > target_bytes

\* ---------------------------------------------------------------- C5
PrevSet == prev.stage # None

\* C5 as stated: of two runs on the same image and format, the one with
\* the larger budget never has the lower quality level.
C5_QualityMonotonicInBudget ==
    (RasterDone /\ PrevSet) =>
        /\ prev.b <= target_bytes => prev.q <= chosen.q
        /\ target_bytes <= prev.b => chosen.q <= prev.q

\* C5 amended: the quality level does not decrease with the budget when
\* the run with the smaller budget was settled by step 1 or by the
\* quality search (a run settled by the downscale or by the best-effort
\* fallback is at quality 90, above what the search returns).
C5_QualityMonotonicFromSearch ==
    (RasterDone /\ PrevSet) =>
        /\ (prev.b <= target_bytes /\ prev.stage \in {"step1", "search"})
              => prev.q <= chosen.q
        /\ (target_bytes <= prev.b /\ chosen.stage \in {"step1", "search"})
              => chosen.q <= prev.q

C5_Witness ==
    /\ RasterDone
    /\ PrevSet
    /\ prev.stage = "search"
    /\ chosen.stage = "search"
    /\ prev.b < target_bytes
    /\ prev.q < chosen.q

\* ---------------------------------------------------------------- C6
\* the scale list the claim names, in hundredths
ListedScales == <<100, 90, 80, 70, 60, 50, 45, 40, 35, 30>>
\* the image the outer loop builds at the i-th listed scale
GridImg(i) == [w |-> ScaledSide(Orig.w, ListedScales[i]),
               h |-> ScaledSide(Orig.h, ListedScales[i])]
\* length of the PDF built at the i-th scale and quality q
PdfSize(i, q) == PdfOverhead + EncSize(enc, Orig.w, GridImg(i), "JPEG", q)
ScaleIdx == 1..Len(ListedScales)
PdfFits(i) == { q \in PdfQualities : PdfSize(i, q) <= target_bytes }
FittingScales == { i \in ScaleIdx : PdfFits(i) # {} }
MonotonicPdf ==
    \A i \in ScaleIdx : \A q \in PdfQualities \ {PDF_MAX_QUALITY} :
        PdfSize(i, q) <= PdfSize(i, q + 1)
ImageToPdfDone == pc = "done" /\ chosen.stage \in {"grid", "fallback"}

\* C6: with PDF size non-decreasing in quality at each scale, image->pdf
\* returns the PDF of the first scale of the list at which some quality
\* in [30,95] fits, at the highest fitting quality of that scale, padded
\* with spaces to exactly the budget; no later scale is tried.
C6_FirstScaleMaxQuality ==
    (ImageToPdfDone /\ FittingScales # {} /\ MonotonicPdf) =>
        LET i == MinOf(FittingScales)
            q == MaxOf(PdfFits(i))
        IN  /\ chosen.stage = "grid"
            /\ chosen.scale = i
            /\ chosen.q = q
            /\ result = PdfAt(GridImg(i), q) \o Spaces(target_bytes - PdfSize(i, q))
            /\ Len(result) = target_bytes
            /\ \A j \in CandIdx : cands[j].scale <= i

\* a scale below 1.0 is the first to fit, at a quality inside the range
C6_Witness ==
    /\ GridDone
    /\ MonotonicPdf
    /\ chosen.scale > 1
    /\ chosen.q = 61
    /\ Orig.w > 1
    /\ Len(best.bytes) < target_bytes

\* ---------------------------------------------------------------- C7
NoGridFit == FittingScales = {}
ThirdImg == [w |-> IF Orig.w \div 3 >= 1 THEN Orig.w \div 3 ELSE 1,
             h |-> IF Orig.h \div 3 >= 1 THEN Orig.h \div 3 ELSE 1]

\* C7: when no (scale, quality) of the grid fits, image->pdf returns the
\* PDF of the image at one third of its sides (at least 1), quality 60:
\* whole when its length is >= budget, padded with spaces when shorter.
C7_FallbackNeverTruncated ==
    (ImageToPdfDone /\ NoGridFit) =>
        LET pdf == PdfAt(ThirdImg, FALLBACK_QUALITY)
        IN  /\ chosen.stage = "fallback"
            /\ chosen.q = 60
            /\ chosen.w = ThirdImg.w /\ chosen.h = ThirdImg.h
            /\ ThirdImg.w >= 1 /\ ThirdImg.h >= 1
            /\ IF Len(pdf) >= target_bytes
               THEN result = pdf
               ELSE result = pdf \o Spaces(target_bytes - Len(pdf))

C7_Witness ==
    /\ FallbackDone
    /\ NoGridFit
    /\ Len(result) > target_bytes

\* the padded branch of the fallback is reachable too
C7_PaddedFallback ==
    /\ FallbackDone
    /\ NoGridFit
    /\ cands[Len(cands)].size < target_bytes

\* ---------------------------------------------------------------- C8
StageRank(st) ==
    CASE st = "step1" -> 1
      [] st = "search" -> 2
      [] st = "resize" -> 3
      [] OTHER -> 0

IsRasterRun == pil_format # None

\* the image a resize candidate was made from
Before(i) == IF cands[i - 1].stage = "resize"
             THEN [w |-> cands[i - 1].w, h |-> cands[i - 1].h]
             ELSE Orig

FloorNineTenths(n) == CHOOSE m \in 0..n : 10 * m <= 9 * n /\ 9 * n < 10 * (m + 1)
AtLeast50(n) == IF n >= 50 THEN n ELSE 50

\* C8: image->image runs step 1, then the quality search (JPEG/WEBP
\* only), then the downscale, and returns from the first stage with an
\* encode <= budget; a later stage is entered only when the earlier ones
\* had no fit; each downscale step maps (w, h) to
\* (max(floor(0.9w), 50), max(floor(0.9h), 50)) at quality 90, the first
\* fitting one is returned, and every downscaled side is >= 50.
C8_StageOrder ==
    IsRasterRun =>
        /\ cands[1].stage = "step1" /\ cands[1].q = 90
        /\ cands[1].w = Orig.w /\ cands[1].h = Orig.h
        /\ \A i \in CandIdx : i > 1 =>
              /\ StageRank(cands[i - 1].stage) <= StageRank(cands[i].stage)
              /\ cands[i].stage # "step1"
              /\ cands[i].stage = "search" => pil_format \in QualityFormats
              \* a new stage starts only after a stage without a fit
              /\ cands[i].stage # cands[i - 1].stage =>
                    \A j \in 1..(i - 1) : cands[j].size > target_bytes
              /\ cands[i].stage = "resize" =>
                    /\ cands[i].w = AtLeast50(FloorNineTenths(Before(i).w))
                    /\ cands[i].h = AtLeast50(FloorNineTenths(Before(i).h))
                    /\ cands[i].q = 90
                    /\ cands[i].w >= 50 /\ cands[i].h >= 50
                    /\ cands[i - 1].stage = "resize" =>
                          cands[i - 1].size > target_bytes
        /\ (RasterDone /\ AnyCandFits) =>
              /\ chosen.stage =
                    cands[MinOf({ i \in CandIdx : cands[i].size <= target_bytes })].stage
              /\ chosen.stage = "resize" =>
                    LET n == Len(cands)
                    IN  /\ cands[n].size <= target_bytes
                        /\ chosen.w = cands[n].w /\ chosen.h = cands[n].h
                        /\ \A j \in 1..(n - 1) : cands[j].size > target_bytes
                        /\ result = Encode([w |-> cands[n].w, h |-> cands[n].h],
                                           pil_format, 90)
                                      \o Spaces(target_bytes - cands[n].size)

\* the second downscale step is the first to fit
C8_Witness ==
    /\ RasterDone
    /\ chosen.stage = "resize"
    /\ Cardinality(StageCands("resize")) = 2
    /\ Cardinality(StageCands("search")) > 0

\* ---------------------------------------------------------------- C9
\* C9: the encode image->image selects exceeds the budget only when no
\* candidate of any stage fits, and then it is the step-1 encode
\* (original size, quality 90), returned cut to its first target_bytes
\* bytes.
C9_BestEffortIsStep1 ==
    RasterDone =>
        LET sel == Encode([w |-> chosen.w, h |-> chosen.h], pil_format, chosen.q)
            first == Encode(Orig, pil_format, 90)
        IN  /\ Len(sel) > target_bytes <=> ~AnyCandFits
            /\ ~AnyCandFits =>
                  /\ chosen.stage = "best_effort"
                  /\ sel = first
                  /\ Len(result) = target_bytes
                  /\ \A i \in 1..target_bytes : result[i] = first[i]
            /\ AnyCandFits =>
                  result = sel \o Spaces(target_bytes - Len(sel))

\* downscaled candidates were made, none fits, the step-1 encode is cut
C9_Witness ==
    /\ RasterDone
    /\ ~AnyCandFits
    /\ StageCands("resize") # {}
    /\ StageCands("search") # {}
    /\ Len(out_bytes) > target_bytes

\* --------------------------------------------------------------- C10
GridCands(i) == { j \in CandIdx : cands[j].stage = "grid" /\ cands[j].scale = i }
Running == pc \notin {"idle", "done", "error"}

\* (every encode is the last of cands in the state that follows it, so
\* the per-encode conditions are stated of the last one)
\* C10: each quality search makes at most 7 probes, all inside its range
\* ([10,95] for image->image, [30,95] for image->pdf), and ends with
\* low > high; the PDF scale loop makes at most 10 scale steps; each
\* downscale step is made from an image with both sides above 50 and
\* strictly reduces both sides; a run in progress always has a next step.
C10_BoundedIterations ==
    /\ Cardinality(StageCands("search")) <= 7
    /\ cands # <<>> =>
          LET i == Len(cands)
          IN  /\ cands[i].stage = "search" => cands[i].q \in 10..95
              /\ cands[i].stage = "grid" =>
                    /\ cands[i].q \in 30..95
                    /\ cands[i].scale \in 1..10
                    /\ Cardinality(GridCands(cands[i].scale)) <= 7
              /\ cands[i].stage = "resize" =>
                    /\ Before(i).w > 50 /\ Before(i).h > 50
                    /\ cands[i].w < Before(i).w
                    /\ cands[i].h < Before(i).h
    /\ scale_i <= 11
    /\ (pil_format \in QualityFormats /\ (pc = "resize" \/ RasterDone)
          /\ chosen.stage # "step1") => low > high
    /\ ((pc = "scale" /\ scale_i > 1) \/ ImageToPdfDone) => low > high
    /\ Running => ENABLED Next

\* a quality search that took all 7 probes
C10_Witness ==
    /\ RasterDone
    /\ chosen.stage = "search"
    /\ Cardinality(StageCands("search")) = 7
    /\ low > high

====
